---- MODULE Spec2Model ----
(***************************************************************************)
(* Model of ncclient/operations/lock.py: the `lock` RPC with its blocking  *)
(* retry loop (Lock.request), the `unlock` RPC (Unlock.request) and the    *)
(* context manager pairing them (LockContext).                             *)
(*                                                                         *)
(* RPC._request, RaiseMode and the reply classes live in                   *)
(* ncclient/operations/rpc.py, which is not part of the modelled file: the *)
(* channel is modelled as a synchronous send that is answered by one reply *)
(* and raises according to the raise mode of the RPC object.               *)
(***************************************************************************)
EXTENDS Integers, Sequences, FiniteSets, TLC

(* ---------------------------- bounds ----------------------------------- *)

\* largest positive retries budget a caller passes
MaxRetries == 3

\* number of lock requests after which an unbounded loop is no longer followed
MaxSends == MaxRetries + 2

\* largest number of rpc-error elements in one reply
MaxErrors == 2

(* ------------------------- values of the program ----------------------- *)

\* RaiseMode.NONE, RaiseMode.ERRORS, RaiseMode.ALL
RaiseMode == {"NONE", "ERRORS", "ALL"}

Tags == {"lock-denied", "too-many-sessions"}

Severities == {"error", "warning"}

\* an rpc-error of a reply
Error == [tag : Tags, severity : Severities]

\* the sequences of 1..n rpc-errors
RECURSIVE ErrorLists(_)
ErrorLists(n) ==
    IF n = 0 THEN {}
    ELSE ErrorLists(n - 1) \cup [1..n -> Error]

\* what a reply carries: ok is the absence of rpc-errors; the malformed
\* payload is a failed reply that carries no rpc-error at all
OkPayload == [ok |-> TRUE, errors |-> <<>>]

MalformedPayload == [ok |-> FALSE, errors |-> <<>>]

Payloads(m) ==
    {OkPayload}
        \cup {[ok |-> FALSE, errors |-> es] : es \in ErrorLists(MaxErrors)}
        \cup (IF m THEN {MalformedPayload} ELSE {})

\* the reply object: payload plus raw, the number of the request it answers
Result(p, n) == [ok |-> p.ok, errors |-> p.errors, raw |-> n]

\* no reply yet
NoResult == [ok |-> FALSE, errors |-> <<>>, raw |-> 0]

\* nothing raised
NoRaise == [kind |-> "none", errs |-> <<>>, raw |-> 0]

\* the retries values a caller passes: unbounded (<= 0) and bounded
RetriesValues == (-1) .. MaxRetries

(* ------------------------------ state ---------------------------------- *)

VARIABLES
    caller,             \* "direct": Lock(...).request(...); "scope": with LockContext(...)
    policy,             \* raise_mode the Lock object was constructed with
    blocking,           \* parameter blocking of Lock.request
    retries,            \* parameter retries of Lock.request
    malformed,          \* the device may answer with a failed reply without rpc-error
    raise_mode,         \* self._raise_mode of the Lock object
    raise_mode_original,\* local raise_mode_original
    tries,              \* local tries
    lock_result,        \* local lock_result
    reply,              \* self._reply of the Lock object
    pc,                 \* position inside Lock.request
    outcome,            \* how Lock.request ended: "none", "returned", "raised"
    returned,           \* the Result Lock.request returned
    raised,             \* the exception Lock.request raised
    sent,               \* lock requests sent on the channel
    sleeps,             \* time.sleep(interval) calls
    registers,          \* self._listener.register(self._id, self) calls
    prior_denied,       \* every reply before the last one had primary tag lock-denied
    msg_ids,            \* message ids the requests and re-arms of the call used
    scope,              \* position of the with statement around LockContext
    block_raised,       \* the protected block raised
    unlocks,            \* unlock requests sent on the channel
    unlock_reply,       \* reply to the unlock request
    observed,           \* what the caller of the with statement observes
    context             \* the exception the observed one replaced, if it still carries it

vars == <<caller, policy, blocking, retries, malformed, raise_mode,
          raise_mode_original, tries, lock_result, reply, pc, outcome,
          returned, raised, sent, sleeps, registers, prior_denied, msg_ids, scope,
          block_raised, unlocks, unlock_reply, observed, context>>

params == <<caller, policy, blocking, retries, malformed>>

lockvars == <<raise_mode, raise_mode_original, tries, lock_result, reply, pc,
              outcome, returned, raised, sent, sleeps, registers, prior_denied,
              msg_ids>>

scopevars == <<scope, block_raised, unlocks, unlock_reply, observed, context>>

(* --------------------------- pure helpers ------------------------------ *)

\* what the device answered: a failure whose first rpc-error is lock-denied
DeniedReply(r) ==
    ~r.ok /\ r.errors # <<>> /\ Head(r.errors).tag = "lock-denied"

\* what the device answered: a failure whose first rpc-error has another tag
OtherReply(r) ==
    ~r.ok /\ r.errors # <<>> /\ Head(r.errors).tag # "lock-denied"

\* reply.error: the first rpc-error
PrimaryError(r) == Head(r.errors)

\* the blocking test of line 38 dropped: every call takes the retry loop
SingleShotIgnored(b) == FALSE

\* line 38: the call is the single-shot one
SingleShot(b) == ~b

\* the override of line 45 dropped: the loop runs under the caller's mode
LoopRaiseModeKept(original) == original

\* line 45: the raise mode the loop runs under
LoopRaiseMode(original) == "NONE"

\* line 55 never true: the budget is never found used up
ExhaustedNever(r, t) == FALSE

\* line 55 with >= for >: one attempt too few
ExhaustedOffByOne(r, t) == r > 0 /\ t >= r

\* line 55 without the retries > 0 test: retries <= 0 means no retry
ExhaustedAlwaysBounded(r, t) == t > r

\* line 55: the retries budget is used up
Exhausted(r, t) == r > 0 /\ t > r

\* line 60 dropped: every failure is worth another attempt
RetryableAny(r) == TRUE

\* line 60 negated: the failure is worth another attempt
Retryable(r) == PrimaryError(r).tag = "lock-denied"

\* line 75 looking at the severity of every rpc-error, not of the first
ShouldRaiseAnySeverity(mode, r) ==
    \/ mode = "ALL"
    \/ mode = "ERRORS" /\ \E i \in 1..Len(r.errors) : r.errors[i].severity = "error"

\* line 74 dropped: the raise is considered for every final result
FailedAlways(r) == TRUE

\* line 74: the final result is a failure
Failed(r) == ~r.ok

\* line 75 reading self._raise_mode, which the loop left at NONE, instead of
\* raise_mode_original
ShouldRaiseUnderLoopMode(mode, r) ==
    \/ LoopRaiseMode(mode) = "ALL"
    \/ LoopRaiseMode(mode) = "ERRORS" /\ PrimaryError(r).severity = "error"

\* line 75 without the test of the mode: every failed result raises
ShouldRaiseAlways(mode, r) == TRUE

\* line 75 looking at the severity of the last rpc-error, not of the first
ShouldRaiseLastSeverity(mode, r) ==
    \/ mode = "ALL"
    \/ mode = "ERRORS" /\ r.errors[Len(r.errors)].severity = "error"

\* line 75: the saved mode turns this failed result into a raise
ShouldRaise(mode, r) ==
    \/ mode = "ALL"
    \/ mode = "ERRORS" /\ PrimaryError(r).severity = "error"

\* RPC._request: the channel raises for a reply that carries rpc-errors when
\* the raise mode of the RPC object is ALL, or ERRORS and the first rpc-error
\* has severity error; under NONE it always returns the reply
ChannelRaises(mode, r) ==
    /\ ~r.ok
    /\ r.errors # <<>>
    /\ \/ mode = "ALL"
       \/ mode = "ERRORS" /\ Head(r.errors).severity = "error"

\* evaluating line 75 reads lock_result.error.severity, which has no value
\* when the reply carries no rpc-error and the mode is ERRORS
SeverityFault(mode, r) == mode = "ERRORS" /\ r.errors = <<>>

\* lines 76-80 without the len(errors) > 1 branch: always the first rpc-error
RaiseValueFirstOnly(r) ==
    IF Len(r.errors) >= 1
    THEN [kind |-> "single", errs |-> <<Head(r.errors)>>, raw |-> r.raw]
    ELSE [kind |-> "fault", errs |-> <<>>, raw |-> r.raw]

\* lines 76-80: the exception built from self._reply
RaiseValue(r) ==
    IF Len(r.errors) > 1
    THEN [kind |-> "aggregate", errs |-> r.errors, raw |-> r.raw]
    ELSE IF Len(r.errors) = 1
    THEN [kind |-> "single", errs |-> r.errors, raw |-> r.raw]
    ELSE [kind |-> "fault", errs |-> <<>>, raw |-> r.raw]

\* an exception that is not an rpc-error: IndexError, AttributeError
Fault(r) == [kind |-> "fault", errs |-> <<>>, raw |-> r.raw]

\* self._id: the message id of the RPC object, set once at construction
SelfId == "self._id"

\* lines 119 and 127: the raise mode LockContext gives Lock and Unlock
ScopeRaiseMode == "ERRORS"

(* ------------------------------- Init ---------------------------------- *)

InitWith(m) ==
    /\ caller \in {"direct", "scope"}
    /\ policy \in RaiseMode
    /\ caller = "scope" => policy = ScopeRaiseMode
    /\ blocking \in BOOLEAN
    /\ retries \in RetriesValues
    /\ malformed = m
    /\ raise_mode = policy
    /\ raise_mode_original = "NONE"
    /\ tries = 0
    /\ lock_result = NoResult
    /\ reply = NoResult
    /\ pc = IF caller = "direct" THEN "start" ELSE "idle"
    /\ outcome = "none"
    /\ returned = NoResult
    /\ raised = NoRaise
    /\ sent = 0
    /\ sleeps = 0
    /\ registers = 0
    /\ prior_denied = TRUE
    /\ msg_ids = {}
    /\ scope = IF caller = "scope" THEN "new" ELSE "none"
    /\ block_raised = FALSE
    /\ unlocks = 0
    /\ unlock_reply = NoResult
    /\ observed = "none"
    /\ context = "none"

Init == InitWith(FALSE)

\* the same, with a device that may also answer with a failed reply that
\* carries no rpc-error
InitMalformed == InitWith(TRUE)

(* --------------------------- Lock.request ------------------------------ *)

\* lines 36-45: build the node; non-blocking goes straight to the single
\* request, blocking saves the raise mode and overrides it
RequestStart ==
    /\ pc = "start"
    /\ IF SingleShot(blocking)
       THEN UNCHANGED <<raise_mode, raise_mode_original, tries>>
       ELSE /\ raise_mode_original' = raise_mode
            /\ tries' = 0
            /\ raise_mode' = LoopRaiseMode(raise_mode)
    /\ pc' = "request"
    /\ UNCHANGED <<lock_result, reply, outcome, returned, raised, sent,
                   sleeps, registers, prior_denied>>
    /\ UNCHANGED msg_ids
    /\ UNCHANGED params
    /\ UNCHANGED scopevars

\* lines 39 and 49, first half of self._request(node): the request goes out
SendRequest ==
    /\ pc = "request"
    /\ sent < MaxSends
    /\ sent' = sent + 1
    /\ pc' = "wait"
    /\ UNCHANGED <<raise_mode, raise_mode_original, tries, lock_result, reply,
                   outcome, returned, raised, sleeps, registers, prior_denied>>
    /\ msg_ids' = msg_ids \cup {SelfId}
    /\ UNCHANGED params
    /\ UNCHANGED scopevars

\* lines 39 and 49, second half of self._request(node): the reply arrives;
\* the channel raises according to self._raise_mode or returns the reply
ReceiveReply ==
    /\ pc = "wait"
    /\ \E p \in Payloads(malformed) :
        LET r == Result(p, sent) IN
        /\ reply' = r
        /\ prior_denied' = (prior_denied /\ (reply.raw = 0 \/ DeniedReply(reply)))
        /\ IF ChannelRaises(raise_mode, r)
           THEN /\ outcome' = "raised"
                /\ raised' = RaiseValue(r)
                /\ pc' = "done"
                /\ UNCHANGED <<lock_result, returned>>
           ELSE IF SingleShot(blocking)
           THEN /\ outcome' = "returned"
                /\ returned' = r
                /\ pc' = "done"
                /\ UNCHANGED <<lock_result, raised>>
           ELSE /\ lock_result' = r
                /\ pc' = "check"
                /\ UNCHANGED <<outcome, returned, raised>>
    /\ UNCHANGED <<raise_mode, raise_mode_original, tries, sent, sleeps,
                   registers>>
    /\ UNCHANGED msg_ids
    /\ UNCHANGED params
    /\ UNCHANGED scopevars

\* lines 50-61: decide whether the loop goes round again
LoopCheck ==
    /\ pc = "check"
    /\ IF lock_result.ok
       THEN /\ pc' = "final"
            /\ UNCHANGED <<tries, outcome, raised>>
       ELSE /\ tries' = tries + 1
            /\ IF Exhausted(retries, tries + 1)
               THEN /\ pc' = "final"
                    /\ UNCHANGED <<outcome, raised>>
               ELSE IF lock_result.errors = <<>>
               THEN /\ pc' = "done"
                    /\ outcome' = "raised"
                    /\ raised' = Fault(lock_result)
               ELSE IF ~Retryable(lock_result)
               THEN /\ pc' = "final"
                    /\ UNCHANGED <<outcome, raised>>
               ELSE /\ pc' = "sleep"
                    /\ UNCHANGED <<outcome, raised>>
    /\ UNCHANGED <<raise_mode, raise_mode_original, lock_result, reply,
                   returned, sent, sleeps, registers, prior_denied>>
    /\ UNCHANGED msg_ids
    /\ UNCHANGED params
    /\ UNCHANGED scopevars

\* line 66: time.sleep(interval)
Sleep ==
    /\ pc = "sleep"
    /\ sleeps' = sleeps + 1
    /\ pc' = "register"
    /\ UNCHANGED <<raise_mode, raise_mode_original, tries, lock_result, reply,
                   outcome, returned, raised, sent, registers, prior_denied>>
    /\ UNCHANGED msg_ids
    /\ UNCHANGED params
    /\ UNCHANGED scopevars

\* line 67 missing: the loop goes round again without re-priming the listener
RegisterSkipped ==
    /\ pc = "register"
    /\ pc' = "request"
    /\ UNCHANGED <<raise_mode, raise_mode_original, tries, lock_result, reply,
                   outcome, returned, raised, sent, sleeps, registers,
                   prior_denied, msg_ids>>
    /\ UNCHANGED params
    /\ UNCHANGED scopevars

\* lines 67-71: re-prime the listener with the same message id, go round again
Register ==
    /\ pc = "register"
    /\ registers' = registers + 1
    /\ pc' = "request"
    /\ UNCHANGED <<raise_mode, raise_mode_original, tries, lock_result, reply,
                   outcome, returned, raised, sent, sleeps, prior_denied>>
    /\ msg_ids' = msg_ids \cup {SelfId}
    /\ UNCHANGED params
    /\ UNCHANGED scopevars

\* lines 73-83: raise according to the saved raise mode or return the result
Finish ==
    /\ pc = "final"
    /\ IF Failed(lock_result) /\ SeverityFault(raise_mode_original, lock_result)
       THEN /\ outcome' = "raised"
            /\ raised' = Fault(lock_result)
            /\ UNCHANGED returned
       ELSE IF Failed(lock_result) /\ ShouldRaise(raise_mode_original, lock_result)
       THEN /\ outcome' = "raised"
            /\ raised' = RaiseValue(reply)
            /\ UNCHANGED returned
       ELSE /\ outcome' = "returned"
            /\ returned' = lock_result
            /\ UNCHANGED raised
    /\ pc' = "done"
    /\ UNCHANGED <<raise_mode, raise_mode_original, tries, lock_result, reply,
                   sent, sleeps, registers, prior_denied>>
    /\ UNCHANGED msg_ids
    /\ UNCHANGED params
    /\ UNCHANGED scopevars

(* ---------------------------- LockContext ------------------------------ *)

\* lines 118-123: __enter__ builds a Lock with raise_mode ERRORS and calls
\* request with the parameters of the context
Enter ==
    /\ scope = "new"
    /\ pc = "idle"
    /\ raise_mode' = ScopeRaiseMode
    /\ pc' = "start"
    /\ scope' = "entering"
    /\ UNCHANGED <<raise_mode_original, tries, lock_result, reply, outcome,
                   returned, raised, sent, sleeps, registers, prior_denied>>
    /\ UNCHANGED msg_ids
    /\ UNCHANGED params
    /\ UNCHANGED <<block_raised, unlocks, unlock_reply, observed, context>>

\* line 124: request returned, __enter__ returns self and the block starts
EnterReturn ==
    /\ scope = "entering"
    /\ pc = "done"
    /\ outcome = "returned"
    /\ scope' = "block"
    /\ UNCHANGED <<block_raised, unlocks, unlock_reply, observed, context>>
    /\ UNCHANGED params
    /\ UNCHANGED lockvars

\* lines 119-123: request raised, the exception leaves __enter__; the with
\* statement runs neither the block nor __exit__
EnterRaise ==
    /\ scope = "entering"
    /\ pc = "done"
    /\ outcome = "raised"
    /\ scope' = "failed"
    /\ observed' = "lock_error"
    /\ UNCHANGED <<block_raised, unlocks, unlock_reply, context>>
    /\ UNCHANGED params
    /\ UNCHANGED lockvars

\* the protected block of the with statement ends, normally or by raising
Block ==
    /\ scope = "block"
    /\ \E b \in BOOLEAN : block_raised' = b
    /\ scope' = "exit"
    /\ UNCHANGED <<unlocks, unlock_reply, observed, context>>
    /\ UNCHANGED params
    /\ UNCHANGED lockvars

\* the release made in a finally that also covers the acquisition: it runs
\* when __enter__ raised as well
ExitSendAlsoAfterFailedEntry ==
    /\ scope \in {"exit", "failed"}
    /\ unlocks' = unlocks + 1
    /\ scope' = "exit_wait"
    /\ UNCHANGED <<block_raised, unlock_reply, observed, context>>
    /\ UNCHANGED params
    /\ UNCHANGED lockvars

\* __exit__ releasing only when the block ended normally
ExitSendUnlessRaised ==
    /\ scope = "exit"
    /\ unlocks' = IF block_raised THEN unlocks ELSE unlocks + 1
    /\ scope' = "exit_wait"
    /\ UNCHANGED <<block_raised, unlock_reply, observed, context>>
    /\ UNCHANGED params
    /\ UNCHANGED lockvars

\* lines 127 and 96-98, first half of self._request(node): __exit__ builds an
\* Unlock with raise_mode ERRORS, the unlock request goes out
ExitSend ==
    /\ scope = "exit"
    /\ unlocks' = unlocks + 1
    /\ scope' = "exit_wait"
    /\ UNCHANGED <<block_raised, unlock_reply, observed, context>>
    /\ UNCHANGED params
    /\ UNCHANGED lockvars

\* __exit__ returning True: the exception of the block is swallowed
ExitSuppressesAlways == TRUE

\* line 128: return False, the with statement re-raises the block's exception
ExitSuppresses == FALSE

\* line 127 raising while the exception of the block is being handled: the
\* exception that leaves __exit__ is the one of the unlock; the interpreter
\* attaches the block's exception to it as __context__ (Python 3) or drops it
\* (Python 2), the module runs under both
ReplacedContexts(b) == IF b THEN {"block_error", "none"} ELSE {"none"}

\* lines 98 and 127-128: the unlock reply arrives; the channel raises according
\* to the raise mode of the Unlock, otherwise __exit__ returns False and an
\* exception of the block continues to the caller
ExitReply ==
    /\ scope = "exit_wait"
    /\ \E p \in Payloads(malformed) :
        LET r == Result(p, unlocks) IN
        /\ unlock_reply' = r
        /\ IF ChannelRaises(ScopeRaiseMode, r)
           THEN /\ observed' = "unlock_error"
                /\ context' \in ReplacedContexts(block_raised)
           ELSE /\ observed' =
                      IF block_raised /\ ~ExitSuppresses
                      THEN "block_error"
                      ELSE "normal"
                /\ context' = "none"
    /\ scope' = "left"
    /\ UNCHANGED <<block_raised, unlocks>>
    /\ UNCHANGED params
    /\ UNCHANGED lockvars

(* ------------------------------- Next ---------------------------------- *)

Next ==
    \/ RequestStart
    \/ SendRequest
    \/ ReceiveReply
    \/ LoopCheck
    \/ Sleep
    \/ Register
    \/ Finish
    \/ Enter
    \/ EnterReturn
    \/ EnterRaise
    \/ Block
    \/ ExitSend
    \/ ExitReply

Spec == Init /\ [][Next]_vars

\* the call runs in one thread and every request is answered: a step that can
\* be taken is taken
SpecFair == Init /\ [][Next]_vars /\ WF_vars(Next)

SpecMalformed == InitMalformed /\ [][Next]_vars

(* ------------------------------ claims --------------------------------- *)

\* the last reply is a failure whose primary tag is lock-denied
LastDenied == reply.raw > 0 /\ DeniedReply(reply)

\* the last reply is a failure whose primary tag is not lock-denied
LastOther == reply.raw > 0 /\ OtherReply(reply)

\* every reply received so far is a failure with primary tag lock-denied
AllDenied == prior_denied /\ LastDenied

\* no reply received so far is anything but a lock-denied failure
DeniedSoFar == prior_denied /\ (reply.raw = 0 \/ LastDenied)

\* the reply to the last request sent has been received
Answered == reply.raw = sent

\* C1: in blocking mode with retries = N > 0 and nothing but lock-denied
\* replies, never more than N + 1 lock requests go out, and when the call has
\* ended exactly N + 1 went out and the final result is the failed reply to
\* the last of them.
C1_DeniedExhausts ==
    (blocking /\ retries > 0 /\ DeniedSoFar) =>
        /\ sent <= retries + 1
        /\ ((pc = "done" /\ AllDenied) =>
               /\ sent = retries + 1
               /\ lock_result = reply
               /\ ~lock_result.ok)

C1_Witness ==
    /\ blocking /\ retries > 1 /\ pc = "done" /\ AllDenied
    /\ sent = retries + 1 /\ ~lock_result.ok

\* C2: once a blocking call has ended, by returning or by raising, the raise
\* mode of the Lock object is the one it was constructed with.
C2_PolicyRestored ==
    (blocking /\ pc = "done") => raise_mode = policy

\* C3: in a blocking call every lock request goes out and is answered under
\* raise mode NONE whatever mode the caller asked for, a raise is only seen
\* when the last request sent has been answered, and no request follows a
\* raise.
C3_LoopSuppresses ==
    /\ [](blocking =>
            /\ (pc \in {"wait", "check", "sleep", "register"} => raise_mode = "NONE")
            /\ (outcome = "raised" => pc = "done" /\ Answered))
    /\ [][blocking /\ sent' # sent => outcome = "none" /\ raise_mode = "NONE"]_vars
    /\ [][blocking /\ outcome = "raised" => sent' = sent]_vars

C3_Witness ==
    /\ blocking /\ policy = "ALL" /\ caller = "direct"
    /\ pc = "wait" /\ sent = 2 /\ LastDenied /\ PrimaryError(reply).severity = "error"

\* C4: in a blocking call, once a failed reply whose primary tag is not
\* lock-denied has arrived, the loop is over: no lock request, sleep or re-arm
\* follows and no other reply is received, for every retries value.
C4_OtherErrorEndsLoop ==
    /\ []((blocking /\ LastOther) => pc \in {"check", "final", "done"})
    /\ [][(blocking /\ LastOther) =>
             /\ sent' = sent
             /\ sleeps' = sleeps
             /\ registers' = registers
             /\ reply' = reply]_vars

C4_Witness ==
    /\ blocking /\ retries <= 0 /\ pc = "done" /\ LastOther
    /\ prior_denied /\ sent = 2 /\ sleeps = 1 /\ registers = 1

\* C5: in a blocking call with retries <= 0 the loop is only left after an ok
\* reply or a failure whose primary tag is not lock-denied; while every reply
\* is lock-denied the call has not ended and its next step is enabled, up to
\* the number of requests the model follows.
C5_Unbounded ==
    (blocking /\ retries <= 0) =>
        /\ (pc \in {"final", "done"} => (reply.ok \/ LastOther))
        /\ ((AllDenied /\ sent < MaxSends) =>
               /\ pc \in {"check", "sleep", "register", "request", "wait"}
               /\ ENABLED (SendRequest \/ ReceiveReply \/ LoopCheck \/ Sleep \/ Register))

C5_Witness ==
    /\ blocking /\ retries <= 0 /\ AllDenied /\ Answered
    /\ sent = MaxSends /\ sent > MaxRetries + 1 /\ pc = "sleep"

\* C6: a non-blocking call never sleeps, never re-arms, leaves the raise mode
\* of the Lock object alone and sends at most one lock request; when it has
\* ended exactly one request went out, and either the reply came back as the
\* returned result or the channel raised from that reply under the raise mode
\* of the object.
C6_SingleShot ==
    ~blocking =>
        /\ sleeps = 0
        /\ registers = 0
        /\ tries = 0
        /\ sent <= 1
        /\ raise_mode = policy
        /\ (pc = "done" =>
              /\ sent = 1
              /\ Answered
              /\ \/ /\ outcome = "returned"
                    /\ returned = reply
                    /\ raised = NoRaise
                    /\ ~ChannelRaises(policy, reply)
                 \/ /\ outcome = "raised"
                    /\ returned = NoResult
                    /\ raised = RaiseValue(reply)
                    /\ ChannelRaises(policy, reply))

C6_Witness ==
    /\ ~blocking /\ retries > 0 /\ pc = "done" /\ sent = 1
    /\ outcome = "returned" /\ LastDenied /\ returned = reply

\* C7: a blocking call on a Lock constructed with raise mode ALL that ends
\* with a failed final result raises, whatever the severities: the exception
\* is the single rpc-error of the last reply when it carries one, and an
\* aggregate of all its rpc-errors in reply order when it carries more.
C7_RaiseAlways ==
    (blocking /\ policy = "ALL" /\ pc = "done" /\ ~lock_result.ok) =>
        /\ outcome = "raised"
        /\ Answered
        /\ raised.raw = sent
        /\ raised.errs = reply.errors
        /\ (Len(reply.errors) = 1 => raised.kind = "single")
        /\ (Len(reply.errors) >= 2 => raised.kind = "aggregate")

C7_Witness ==
    /\ blocking /\ policy = "ALL" /\ pc = "done" /\ ~lock_result.ok
    /\ Len(reply.errors) >= 2
    /\ \A i \in 1..Len(reply.errors) : reply.errors[i].severity = "warning"
    /\ reply.errors[1].tag # reply.errors[2].tag
    /\ raised.kind = "aggregate" /\ raised.errs = reply.errors

\* C8: a blocking call on a Lock constructed with raise mode ERRORS that ends
\* with a failed final result returns that result when its primary rpc-error
\* is a warning, and raises as under ALL when it is an error.
C8_RaiseOnError ==
    (blocking /\ policy = "ERRORS" /\ pc = "done" /\ ~lock_result.ok) =>
        IF PrimaryError(lock_result).severity = "warning"
        THEN /\ outcome = "returned"
             /\ returned = lock_result
             /\ ~returned.ok
             /\ raised = NoRaise
        ELSE /\ outcome = "raised"
             /\ raised = RaiseValue(reply)
             /\ raised.errs = lock_result.errors

C8_Witness ==
    /\ blocking /\ policy = "ERRORS" /\ pc = "done" /\ ~lock_result.ok
    /\ Len(lock_result.errors) >= 2
    /\ lock_result.errors[1].severity = "warning"
    /\ lock_result.errors[2].severity = "error"
    /\ outcome = "returned" /\ ~returned.ok

\* C9: whenever the lock request made by __enter__ ends with a failed reply,
\* of any severity, it ends by raising and the protected block is not run.
C9_StrictEntry ==
    (caller = "scope" /\ pc = "done" /\ ~reply.ok) =>
        /\ outcome = "raised"
        /\ scope \in {"entering", "failed"}

\* C10: a scope whose __enter__ returned sends exactly one unlock request at
\* exit, whether the block ended normally or raised, and the caller observes
\* the outcome of the with statement only after it was sent; before the block
\* has ended no unlock request is sent.
C10_UnlockOnce ==
    /\ unlocks <= 1
    /\ (scope \in {"new", "entering", "block", "exit"} => unlocks = 0)
    /\ (scope \in {"exit_wait", "left"} => unlocks = 1)
    /\ (observed \in {"normal", "block_error", "unlock_error"} =>
            unlocks = 1 /\ scope = "left")
    /\ ((scope = "left" /\ unlock_reply.ok) =>
            observed = IF block_raised THEN "block_error" ELSE "normal")

C10_Witness ==
    /\ scope = "left" /\ block_raised /\ unlocks = 1
    /\ observed = "block_error" /\ unlock_reply.ok


\* C11: when the block raised and the unlock request made by __exit__ raises
\* as well, the caller observes an outcome that carries both the exception of
\* the block and the one of the unlock.
C11_BothFailuresSurface ==
    (scope = "left" /\ block_raised /\ ChannelRaises(ScopeRaiseMode, unlock_reply)) =>
        /\ observed = "unlock_error"
        /\ context = "block_error"

\* C12: in a blocking call, once an ok reply has arrived after nothing but
\* lock-denied replies, it answers the last request sent, one sleep was made
\* per earlier request, no further request goes out and nothing is raised;
\* when the call has ended it returned that ok reply, whatever the raise mode
\* of the Lock object.
C12_OkEndsLoop ==
    /\ []((blocking /\ reply.raw > 0 /\ reply.ok /\ prior_denied) =>
            /\ pc \in {"check", "final", "done"}
            /\ Answered
            /\ sleeps = sent - 1
            /\ outcome # "raised"
            /\ raised = NoRaise
            /\ (pc = "done" =>
                  /\ outcome = "returned"
                  /\ returned = reply
                  /\ returned.ok
                  /\ returned.raw = sent))
    /\ [][(blocking /\ reply.ok) => sent' = sent]_vars

C12_Witness ==
    /\ blocking /\ retries > 0 /\ policy = "ALL" /\ pc = "done"
    /\ reply.ok /\ prior_denied /\ sent = retries + 1 /\ sent >= 2
    /\ outcome = "returned" /\ returned.ok

\* C13: the outcome of a blocking call is that of the last request sent: a
\* returned result or a raised exception is built from the reply to that
\* request. With retries = 3, lock-denied replies to requests 1 to 3 and a
\* too-many-sessions rpc-error of severity error in reply 4, exactly 4
\* requests are sent and a Lock constructed with ALL or ERRORS raises the
\* too-many-sessions error of reply 4.
C13_LastReplyDecides ==
    /\ (blocking /\ pc = "done") =>
          /\ Answered
          /\ (outcome = "returned" => returned.raw = sent /\ returned = reply)
          /\ (outcome = "raised" => raised.raw = sent /\ raised.errs = reply.errors)
    /\ (/\ blocking /\ retries = 3 /\ pc = "done" /\ prior_denied
        /\ reply.raw = 4 /\ OtherReply(reply)
        /\ Head(reply.errors).severity = "error") =>
          /\ sent = 4
          /\ sleeps = 3
          /\ (policy \in {"ALL", "ERRORS"} =>
                /\ outcome = "raised"
                /\ raised.raw = 4
                /\ raised.errs = reply.errors
                /\ Head(raised.errs).tag = "too-many-sessions"
                /\ Head(raised.errs).severity = "error")

C13_Witness ==
    /\ blocking /\ retries = 3 /\ pc = "done" /\ prior_denied /\ policy = "ERRORS"
    /\ sent = 4 /\ reply.raw = 4 /\ OtherReply(reply)
    /\ outcome = "raised" /\ raised.kind = "single"
    /\ raised.errs = <<[tag |-> "too-many-sessions", severity |-> "error"]>>

\* C14: a blocking call on a Lock constructed with raise mode NONE never
\* raises for an rpc-error: at no point has it raised, and when it has ended
\* it returned the last reply, failed when that reply is a failure.
C14_SuppressReturns ==
    (blocking /\ policy = "NONE") =>
        /\ outcome # "raised"
        /\ raised = NoRaise
        /\ (pc = "done" =>
              /\ outcome = "returned"
              /\ returned = lock_result
              /\ returned = reply
              /\ returned.raw = sent
              /\ (~reply.ok => ~returned.ok))

C14_Witness ==
    /\ blocking /\ policy = "NONE" /\ pc = "done" /\ outcome = "returned"
    /\ ~returned.ok /\ Len(returned.errors) >= 2
    /\ returned.errors[1].severity = "error"
    /\ returned.errors[1].tag = "too-many-sessions"

\* C15: in a blocking call every lock request after the first goes out when
\* one sleep and then one re-arm were made since the previous reply, a sleep
\* is only made after a lock-denied reply to the last request, requests and
\* re-arms all use the one message id of the Lock object, and a call that has
\* ended after k requests made k - 1 sleeps and k - 1 re-arms.
C15_SleepThenRearm ==
    /\ [](blocking =>
            /\ msg_ids \subseteq {SelfId}
            /\ (pc \in {"wait", "check", "sleep", "final", "done"} =>
                    sleeps = sent - 1 /\ registers = sent - 1)
            /\ (pc = "register" => sleeps = sent /\ registers = sent - 1)
            /\ (pc = "request" => sleeps = sent /\ registers = sent))
    /\ [][(blocking /\ sent' # sent) =>
             /\ sent' = sent + 1
             /\ sleeps = sent
             /\ registers = sent
             /\ (sent >= 1 => Answered /\ DeniedReply(reply))]_vars
    /\ [][(blocking /\ sleeps' # sleeps) =>
             /\ sleeps' = sleeps + 1
             /\ registers = sleeps
             /\ Answered
             /\ DeniedReply(reply)]_vars
    /\ [][(blocking /\ registers' # registers) =>
             /\ registers' = registers + 1
             /\ sleeps = registers + 1]_vars

C15_Witness ==
    /\ blocking /\ pc = "done" /\ sent = 3 /\ sleeps = 2 /\ registers = 2
    /\ msg_ids = {SelfId} /\ OtherReply(reply)

\* C16: with retries = N > 0 a blocking call never sends more than N + 1 lock
\* requests and, every request being answered, it ends whatever the replies
\* are.
C16_BoundedTerminates ==
    /\ []((blocking /\ retries > 0) => (sent <= retries + 1 /\ tries <= retries + 1))
    /\ ((blocking /\ retries > 0 /\ pc = "start") ~> (pc = "done" /\ outcome # "none"))

C16_Witness ==
    /\ blocking /\ retries > 0 /\ pc = "done" /\ sent = retries + 1 /\ sent >= 3
    /\ policy = "ERRORS" /\ OtherReply(reply) /\ outcome = "returned"
    /\ Head(reply.errors).severity = "warning"

\* C17: a blocking call on a Lock constructed with raise mode ERRORS that ends
\* with a failed final result raises exactly when the first rpc-error of that
\* result has severity error; the severities of the later rpc-errors make no
\* difference.
C17_FirstSeverityOnly ==
    (blocking /\ policy = "ERRORS" /\ pc = "done" /\ ~lock_result.ok) =>
        /\ (outcome = "raised") <=> (lock_result.errors[1].severity = "error")
        /\ (outcome = "returned") <=> (lock_result.errors[1].severity = "warning")
        /\ \A i \in 2..Len(lock_result.errors) :
              (lock_result.errors[1].severity = "warning"
                  /\ lock_result.errors[i].severity = "error") => outcome = "returned"

C17_Witness ==
    /\ blocking /\ policy = "ERRORS" /\ pc = "done" /\ ~lock_result.ok
    /\ Len(lock_result.errors) >= 2
    /\ lock_result.errors[1].severity = "error"
    /\ lock_result.errors[2].severity = "warning"
    /\ outcome = "raised" /\ raised.kind = "aggregate"

\* C18: when the lock request made by __enter__ raised, no unlock request is
\* sent for the scope, then or later; an unlock request only goes out from a
\* scope whose __enter__ returned.
C18_NoUnlockAfterFailedEntry ==
    /\ []((caller = "scope" /\ outcome = "raised") =>
            unlocks = 0 /\ scope \in {"entering", "failed"})
    /\ [](scope = "failed" => (unlocks = 0 /\ observed = "lock_error"))
    /\ [][unlocks' # unlocks => (scope = "exit" /\ pc = "done" /\ outcome = "returned")]_vars

C18_Witness ==
    /\ scope = "failed" /\ outcome = "raised" /\ unlocks = 0
    /\ observed = "lock_error" /\ raised.kind = "single"

\* C19: a blocking call whose last reply is a failure without any rpc-error
\* ends by returning that failed result or by raising an rpc-error chosen by
\* the raise mode, never by an exception from reading an rpc-error that is
\* not there.
C19_NoFaultOnEmptyErrors ==
    (blocking /\ pc = "done" /\ reply.raw > 0 /\ ~reply.ok /\ reply.errors = <<>>) =>
        /\ raised.kind # "fault"
        /\ \/ outcome = "returned" /\ returned = reply
           \/ outcome = "raised" /\ raised.kind \in {"single", "aggregate"}

\* C20: when the block raised and the unlock request made by __exit__ did not
\* raise, the caller observes the exception of the block, unreplaced, and
\* observes it after the one unlock request was sent and answered.
C20_BlockErrorSurvives ==
    /\ (scope = "left" /\ block_raised /\ ~ChannelRaises(ScopeRaiseMode, unlock_reply)) =>
          /\ observed = "block_error"
          /\ context = "none"
          /\ unlocks = 1
          /\ unlock_reply.raw = 1
    /\ (scope = "left" /\ block_raised) => observed # "normal"
    /\ (observed = "block_error") => (scope = "left" /\ unlocks = 1 /\ block_raised)

C20_Witness ==
    /\ scope = "left" /\ block_raised /\ observed = "block_error" /\ unlocks = 1
    /\ ~unlock_reply.ok /\ Head(unlock_reply.errors).severity = "warning"

====
